---- MODULE Spec2Model ----
(***************************************************************************)
(* A model of the ipcam-utilities programs:                                *)
(*   - the FFmpeg supervisor loops of app.py (main, sig_handler) and       *)
(*     tui_app.py (Recorder.start, Recorder.stop);                         *)
(*   - the completion watcher of app.py (wait_until_file_complete);        *)
(*   - the retention pass of limpieza_disco.py (main).                     *)
(* Each program has its own specification over its own variables; the      *)
(* variables of the other programs stay at their initial values.           *)
(***************************************************************************)
EXTENDS Integers, Sequences, FiniteSets, TLC

(***************************************************************************)
(* Program constants.                                                      *)
(***************************************************************************)
RETRY_BACKOFF_FIRST == 5
RETRY_BACKOFF_MAX == 60

(***************************************************************************)
(* Bounds of the exploration.                                              *)
(***************************************************************************)
\* the retry counter is explored up to this value
MaxRetry == 7
\* the wall clock crosses at most this many midnights
MaxDay == 2
\* the configured retry budget MAX_RETRIES ranges over 0..MaxBudget
MaxBudget == 2
\* the stop sequence is invoked at most this often
MaxStops == 2

Min(a, b) == IF a <= b THEN a ELSE b

RECURSIVE Pow2(_)
Pow2(n) == IF n <= 0 THEN 1 ELSE 2 * Pow2(n - 1)

VARIABLES
    \* ---- supervisor (app.py main / tui_app.py Recorder) ----
    prog,             \* which program runs: "app" or "tui"
    max_retries,      \* MAX_RETRIES of the CONFIG block (0 = unlimited)
    pc,               \* position of the supervising loop
    spc,              \* position of Recorder.stop (tui only)
    stop_flag,        \* stop_flag / self.stop_flag
    retries,          \* local retries
    backoff,          \* local backoff
    today,            \* the wall clock's date (today_info / datetime.now)
    current_day_dir,  \* app.py: the day key the loop holds
    proc,             \* the capture process last launched: [st, rc, dir]
    cur,              \* whether current_proc / self.proc refers to proc
    orphans,          \* day keys of live capture processes no handle refers to
    lastSeg,          \* the segment file created last: [dir, date]
    sleeps,           \* the backoff sleeps taken so far, in order
    stop_calls,       \* how often the stop sequence was invoked (signal, stop())
    stop_acts,        \* what the stop sequence did, in order: announce, terminate, kill
    \* ---- completion watcher (app.py wait_until_file_complete) ----
    w_pc,           \* "polling", or the call has returned: "returned"
    w_result,       \* "none", "Stable" (True), "Vanished" or "Cancelled" (False)
    stable_checks,  \* the parameter stable_checks
    last_size,      \* local last_size
    stable_count,   \* local stable_count
    w_stop,         \* the module's stop_flag, as the watcher thread reads it
    hist,           \* the sizes read by the polls so far, in order
    \* ---- retention pass (limpieza_disco.py main) ----
    r_pc,           \* position of main: start, collect, sort, loop, final, done, crashed
    pass,           \* the number of the invocation
    dry_run,        \* args.dry_run
    max_delete,     \* args.max_delete
    min_percent,    \* args.min_free_percent
    min_gb,         \* args.min_free_gb
    free,           \* free space of the filesystem, in GB
    present,        \* the files that exist under root
    dirs,           \* the directories that exist (root included)
    mtime,          \* each file's modification time
    listed,         \* the result of collect_files, before the sort
    files,          \* the sorted list the loop walks
    idx,            \* the loop's position in files
    deleted_count,  \* local deleted_count
    rlog,           \* what the pass logged per candidate, in order: [op, f]
    warned,         \* the final "threshold not reached" warning was logged
    cap_warned,     \* the "max-delete reached" warning was logged
    env_touched,    \* another process changed the tree or the free space during the pass
    env_count,      \* how often other processes have interfered so far
    env_gone,       \* the files another process removed during the pass
    start_fs,       \* the tree and the free space as the pass found them
    prev,           \* the summary of the previous invocation
    \* ---- upload dispatcher (app.py UploadHandler, upload_to_minio) ----
    u_created,      \* the paths created under OUTPUT_DIR so far
    u_events,       \* the created events the observer has not delivered yet
    u_threads,      \* the upload threads started: [path, n, pc, last_size, stable_count, watch, key, result]
    u_store,        \* the objects in the bucket: [key, path]
    u_stop,         \* the module's stop_flag, as the upload threads read it
    u_deleted,      \* the local files an upload thread has removed
    \* ---- hourly recorder (grabador_ip.py main, record_segment) ----
    g_pc,           \* position of main: top, for, retry_sleep, returned, ended
    MAX_RETRIES,    \* MAX_RETRIES of grabador_ip.py, from the environment
    attempt,        \* the loop variable of record_segment
    ok,             \* what record_segment returned: "None" (not yet), "True", "False"
    g_runs,         \* the attempts of the current segment: [rc, raised]
    segments,       \* the segments started so far
    cleanups        \* the calls of cleanup_old so far

supVars == <<prog, max_retries, pc, spc, stop_flag, retries, backoff, today,
             current_day_dir, proc, cur, orphans, lastSeg, sleeps,
             stop_calls, stop_acts>>

watchVars == <<w_pc, w_result, stable_checks, last_size, stable_count, w_stop, hist>>

retVars == <<r_pc, pass, dry_run, max_delete, min_percent, min_gb, free, present,
             dirs, mtime, listed, files, idx, deleted_count, rlog, warned,
             cap_warned, env_touched, env_count, env_gone, start_fs, prev>>

upVars == <<u_created, u_events, u_threads, u_store, u_stop, u_deleted>>

recVars == <<g_pc, MAX_RETRIES, attempt, ok, g_runs, segments, cleanups>>

vars == <<supVars, watchVars, retVars, upVars, recVars>>

NoDay == 0 - 1
NoProc == [st |-> "none", rc |-> "None", dir |-> NoDay]
NoSeg == [dir |-> NoDay, date |-> NoDay]

\* the exit codes the capture process ends with on its own: clean, error, signal
ExitCodes == {"0", "1", "-11"}

\* min(backoff * 2, RETRY_BACKOFF_MAX)
NextBackoff_NoCap(b) == b * 2
NextBackoff(b) == Min(b * 2, RETRY_BACKOFF_MAX)

\* (MAX_RETRIES > 0) and (retries > MAX_RETRIES)
BudgetExceeded_AtLeast(r) == (max_retries > 0) /\ (r >= max_retries)
BudgetExceeded(r) == (max_retries > 0) /\ (r > max_retries)

\* terminate_ffmpeg / the body of Recorder.stop: a live process ends on the
\* terminate request within the timeout, or is killed after it.
Terminated(p) ==
    IF p.st = "alive"
    THEN {[p EXCEPT !.st = "dead", !.rc = "-15"], [p EXCEPT !.st = "dead", !.rc = "-9"]}
    ELSE {p}

\* a launch while the previous process is still alive leaves that one running
LeftBehind == IF proc.st = "alive" THEN orphans \cup {proc.dir} ELSE orphans

SupInit ==
    /\ prog \in {"app", "tui"}
    /\ max_retries \in 0..MaxBudget
    /\ pc = "top"
    /\ spc = "idle"
    /\ stop_flag = FALSE
    /\ retries = 0
    /\ backoff = RETRY_BACKOFF_FIRST
    /\ today = 0
    /\ current_day_dir = 0
    /\ proc = NoProc
    /\ cur = FALSE
    /\ orphans = {}
    /\ lastSeg = NoSeg
    /\ sleeps = <<>>
    /\ stop_calls = 0
    /\ stop_acts = <<>>

(***************************************************************************)
(* The environment: the wall clock and the capture processes.              *)
(***************************************************************************)
Tick ==
    /\ today < MaxDay
    /\ today' = today + 1
    /\ UNCHANGED <<watchVars, retVars, upVars, recVars, prog, max_retries, stop_calls, stop_acts, pc, spc, stop_flag, retries, backoff,
                   current_day_dir, proc, cur, orphans, lastSeg, sleeps>>

\* the capture process ends on its own
ProcExit ==
    /\ proc.st = "alive"
    /\ \E rc \in ExitCodes : proc' = [proc EXCEPT !.st = "dead", !.rc = rc]
    /\ UNCHANGED <<watchVars, retVars, upVars, recVars, prog, max_retries, stop_calls, stop_acts, pc, spc, stop_flag, retries, backoff, today,
                   current_day_dir, cur, orphans, lastSeg, sleeps>>

OrphanExit ==
    /\ \E d \in orphans : orphans' = orphans \ {d}
    /\ UNCHANGED <<watchVars, retVars, upVars, recVars, prog, max_retries, stop_calls, stop_acts, pc, spc, stop_flag, retries, backoff, today,
                   current_day_dir, proc, cur, lastSeg, sleeps>>

\* the segment muxer opens the next file: the directory is the one the command
\* was built with, the name carries the date of the moment (-strftime 1)
FfmpegOpenSegment ==
    /\ \E d \in (IF proc.st = "alive" THEN {proc.dir} ELSE {}) \cup orphans :
          lastSeg' = [dir |-> d, date |-> today]
    /\ UNCHANGED <<watchVars, retVars, upVars, recVars, prog, max_retries, stop_calls, stop_acts, pc, spc, stop_flag, retries, backoff, today,
                   current_day_dir, proc, cur, orphans, sleeps>>

(***************************************************************************)
(* app.py: main and sig_handler.                                           *)
(***************************************************************************)
\* while not stop_flag: current_proc = start_ffmpeg(current_day_dir, ...)
AppLaunch ==
    /\ prog = "app" /\ pc = "top" /\ ~stop_flag
    /\ \/ /\ proc' = [st |-> "alive", rc |-> "None", dir |-> current_day_dir]
          /\ orphans' = LeftBehind
          /\ cur' = TRUE
          /\ pc' = "poll"
       \/ \* ensure_day_dir or Popen raises: except Exception, sleep(5)
          /\ pc' = "err_sleep"
          /\ UNCHANGED <<proc, orphans, cur>>
    /\ UNCHANGED <<watchVars, retVars, upVars, recVars, prog, max_retries, stop_calls, stop_acts, spc, stop_flag, retries, backoff, today,
                   current_day_dir, lastSeg, sleeps>>

\* while current_proc.poll() is None and not stop_flag
AppPollCheck ==
    /\ prog = "app" /\ pc = "poll"
    /\ pc' = IF proc.st = "alive" /\ ~stop_flag THEN "poll_sleep" ELSE "exited"
    /\ UNCHANGED <<watchVars, retVars, upVars, recVars, prog, max_retries, stop_calls, stop_acts, spc, stop_flag, retries, backoff, today,
                   current_day_dir, proc, cur, orphans, lastSeg, sleeps>>

\* after sleep(15): today_info(), and the rotation on a day change
AppPollWake ==
    /\ prog = "app" /\ pc = "poll_sleep"
    /\ IF today # current_day_dir
       THEN /\ current_day_dir' = today
            /\ \/ /\ proc' \in Terminated(proc)
                  /\ pc' = "exited"
               \/ \* ensure_day_dir raises: except Exception, sleep(5)
                  /\ pc' = "err_sleep"
                  /\ UNCHANGED proc
       ELSE /\ pc' = "poll"
            /\ UNCHANGED <<current_day_dir, proc>>
    /\ UNCHANGED <<watchVars, retVars, upVars, recVars, prog, max_retries, stop_calls, stop_acts, spc, stop_flag, retries, backoff, today,
                   cur, orphans, lastSeg, sleeps>>

\* rc = current_proc.poll(); retries += 1; the budget; the backoff sleep
AppExited ==
    /\ prog = "app" /\ pc = "exited"
    /\ retries < MaxRetry
    /\ retries' = retries + 1
    /\ IF BudgetExceeded(retries')
       THEN pc' = "stopped" /\ UNCHANGED sleeps
       ELSE pc' = "retry_sleep" /\ sleeps' = Append(sleeps, backoff)
    /\ UNCHANGED <<watchVars, retVars, upVars, recVars, prog, max_retries, stop_calls, stop_acts, spc, stop_flag, backoff, today,
                   current_day_dir, proc, cur, orphans, lastSeg>>

\* after time.sleep(backoff): backoff = min(backoff * 2, RETRY_BACKOFF_MAX)
AppRetryWake ==
    /\ prog = "app" /\ pc = "retry_sleep"
    /\ backoff' = NextBackoff(backoff)
    /\ pc' = "top"
    /\ UNCHANGED <<watchVars, retVars, upVars, recVars, prog, max_retries, stop_calls, stop_acts, spc, stop_flag, retries, today,
                   current_day_dir, proc, cur, orphans, lastSeg, sleeps>>

\* after the sleep(5) of except Exception
AppErrWake ==
    /\ prog = "app" /\ pc = "err_sleep"
    /\ pc' = "top"
    /\ UNCHANGED <<watchVars, retVars, upVars, recVars, prog, max_retries, stop_calls, stop_acts, spc, stop_flag, retries, backoff, today,
                   current_day_dir, proc, cur, orphans, lastSeg, sleeps>>

\* sig_handler up to the wait of terminate_ffmpeg: stop_flag = True, the
\* message, proc.terminate() if the process is alive.  A signal that arrives
\* while an earlier handler waits runs the handler again, on top of it.
AppSignal ==
    /\ prog = "app" /\ pc \notin {"stopped", "exit"}
    /\ stop_calls < MaxStops
    /\ stop_calls' = stop_calls + 1
    /\ stop_flag' = TRUE
    /\ IF cur /\ proc.st = "alive"
       THEN /\ stop_acts' = stop_acts \o <<"announce", "terminate">>
            /\ pc' = "sig_wait"
       ELSE /\ stop_acts' = Append(stop_acts, "announce")
            /\ pc' = "exit"
    /\ UNCHANGED <<watchVars, retVars, upVars, recVars, prog, max_retries, spc, retries, backoff, today,
                   current_day_dir, proc, cur, orphans, lastSeg, sleeps>>

\* proc.wait(timeout=10) returns, or times out and proc.kill(); sys.exit(0)
AppSignalWaitDone ==
    /\ prog = "app" /\ pc = "sig_wait"
    /\ IF proc.st = "alive"
       THEN \/ /\ proc' = [proc EXCEPT !.st = "dead", !.rc = "-15"]
               /\ UNCHANGED stop_acts
            \/ /\ proc' = [proc EXCEPT !.st = "dead", !.rc = "-9"]
               /\ stop_acts' = Append(stop_acts, "kill")
       ELSE UNCHANGED <<proc, stop_acts>>
    /\ pc' = "exit"
    /\ UNCHANGED <<watchVars, retVars, upVars, recVars, prog, max_retries, spc, stop_flag, retries, backoff, today,
                   current_day_dir, cur, orphans, lastSeg, sleeps, stop_calls>>

(***************************************************************************)
(* tui_app.py: Recorder.start and Recorder.stop.                           *)
(***************************************************************************)
\* while not self.stop_flag: cmd = build_ffmpeg_cmd();
\* await asyncio.create_subprocess_exec(...)
TuiTop ==
    /\ prog = "tui" /\ pc = "top"
    /\ pc' = IF stop_flag THEN "finished" ELSE "launching"
    /\ current_day_dir' = IF stop_flag THEN current_day_dir ELSE today
    /\ UNCHANGED <<watchVars, retVars, upVars, recVars, prog, max_retries, stop_calls, stop_acts, spc, stop_flag, retries, backoff, today,
                   proc, cur, orphans, lastSeg, sleeps>>

\* create_subprocess_exec returns the process, or raises
TuiLaunched ==
    /\ prog = "tui" /\ pc = "launching"
    /\ \/ /\ proc' = [st |-> "alive", rc |-> "None", dir |-> current_day_dir]
          /\ orphans' = LeftBehind
          /\ cur' = TRUE
          /\ pc' = "reading"
       \/ /\ pc' = "err_sleep"
          /\ UNCHANGED <<proc, orphans, cur>>
    /\ UNCHANGED <<watchVars, retVars, upVars, recVars, prog, max_retries, stop_calls, stop_acts, spc, stop_flag, retries, backoff, today,
                   current_day_dir, lastSeg, sleeps>>

\* line = await self.proc.stderr.readline(): a line, or the end of the stream;
\* then rc = await self.proc.wait() is entered
TuiReadLine ==
    /\ prog = "tui" /\ pc = "reading"
    /\ IF ~cur
       THEN pc' = "err_sleep"     \* self.proc is None: AttributeError
       ELSE IF proc.st = "alive"
            THEN pc' = IF stop_flag THEN "waiting" ELSE "reading"
            ELSE pc' = "waiting"
    /\ UNCHANGED <<watchVars, retVars, upVars, recVars, prog, max_retries, stop_calls, stop_acts, spc, stop_flag, retries, backoff, today,
                   current_day_dir, proc, cur, orphans, lastSeg, sleeps>>

\* rc = await self.proc.wait(); self.proc = None; the exit is judged
TuiWaitDone ==
    /\ prog = "tui" /\ pc = "waiting"
    /\ proc.st = "dead"
    /\ (stop_flag \/ proc.rc = "0" \/ retries < MaxRetry)
    /\ cur' = FALSE
    /\ IF stop_flag \/ proc.rc = "0"
       THEN pc' = "finished" /\ UNCHANGED <<retries, sleeps>>
       ELSE /\ retries' = retries + 1
            /\ IF BudgetExceeded(retries')
               THEN pc' = "finished" /\ UNCHANGED sleeps
               ELSE pc' = "retry_sleep" /\ sleeps' = Append(sleeps, backoff)
    /\ UNCHANGED <<watchVars, retVars, upVars, recVars, prog, max_retries, stop_calls, stop_acts, spc, stop_flag, backoff, today,
                   current_day_dir, proc, orphans, lastSeg>>

\* after asyncio.sleep(backoff): backoff = min(backoff * 2, RETRY_BACKOFF_MAX)
TuiRetryWake ==
    /\ prog = "tui" /\ pc = "retry_sleep"
    /\ backoff' = NextBackoff(backoff)
    /\ pc' = "top"
    /\ UNCHANGED <<watchVars, retVars, upVars, recVars, prog, max_retries, stop_calls, stop_acts, spc, stop_flag, retries, today,
                   current_day_dir, proc, cur, orphans, lastSeg, sleeps>>

\* after the asyncio.sleep(5) of except Exception
TuiErrWake ==
    /\ prog = "tui" /\ pc = "err_sleep"
    /\ pc' = "top"
    /\ UNCHANGED <<watchVars, retVars, upVars, recVars, prog, max_retries, stop_calls, stop_acts, spc, stop_flag, retries, backoff, today,
                   current_day_dir, proc, cur, orphans, lastSeg, sleeps>>

\* Recorder.stop up to its first wait: the early return, or the flag, the
\* STOPPING event, then terminate()
TuiStop ==
    /\ prog = "tui" /\ (stop_flag \/ spc = "idle")
    /\ stop_calls < MaxStops
    /\ stop_calls' = stop_calls + 1
    /\ IF stop_flag
       THEN UNCHANGED <<stop_flag, spc, cur, stop_acts>>
       ELSE /\ stop_flag' = TRUE
            /\ IF ~cur
               THEN /\ spc' = "done"
                    /\ stop_acts' = Append(stop_acts, "announce")
                    /\ UNCHANGED cur
               ELSE IF proc.st = "alive"
                    THEN /\ spc' = "term_wait"
                         /\ stop_acts' = stop_acts \o <<"announce", "terminate">>
                         /\ UNCHANGED cur
                    ELSE /\ spc' = "done"
                         /\ stop_acts' = Append(stop_acts, "announce")
                         /\ cur' = FALSE
    /\ UNCHANGED <<watchVars, retVars, upVars, recVars, prog, max_retries, pc, retries, backoff, today,
                   current_day_dir, proc, orphans, lastSeg, sleeps>>

\* await asyncio.wait_for(proc.wait(), timeout=10): the exit, or the timeout
\* and kill()
TuiStopTermWait ==
    /\ prog = "tui" /\ spc = "term_wait"
    /\ \/ /\ proc' = IF proc.st = "alive"
                     THEN [proc EXCEPT !.st = "dead", !.rc = "-15"]
                     ELSE proc
          /\ cur' = FALSE
          /\ spc' = "done"
          /\ UNCHANGED stop_acts
       \/ /\ proc.st = "alive"
          /\ proc' = [proc EXCEPT !.st = "dead", !.rc = "-9"]
          /\ spc' = "kill_wait"
          /\ stop_acts' = Append(stop_acts, "kill")
          /\ UNCHANGED cur
    /\ UNCHANGED <<watchVars, retVars, upVars, recVars, prog, max_retries, stop_calls, pc, stop_flag, retries, backoff, today,
                   current_day_dir, orphans, lastSeg, sleeps>>

\* await asyncio.wait_for(proc.wait(), timeout=5); self.proc = None
TuiStopKillWait ==
    /\ prog = "tui" /\ spc = "kill_wait"
    /\ cur' = FALSE
    /\ spc' = "done"
    /\ UNCHANGED <<watchVars, retVars, upVars, recVars, prog, max_retries, stop_calls, stop_acts, pc, stop_flag, retries, backoff, today,
                   current_day_dir, proc, orphans, lastSeg, sleeps>>

SupNext ==
    \/ Tick \/ ProcExit \/ OrphanExit \/ FfmpegOpenSegment
    \/ AppLaunch \/ AppPollCheck \/ AppPollWake \/ AppExited
    \/ AppRetryWake \/ AppErrWake \/ AppSignal \/ AppSignalWaitDone
    \/ TuiTop \/ TuiLaunched \/ TuiReadLine \/ TuiWaitDone
    \/ TuiRetryWake \/ TuiErrWake
    \/ TuiStop \/ TuiStopTermWait \/ TuiStopKillWait

(***************************************************************************)
(* app.py: wait_until_file_complete(path, check_interval=10,               *)
(* stable_checks=3).                                                       *)
(***************************************************************************)
\* the polls of one call are explored up to this number
MaxPolls == 6
\* the file's size ranges over 0..MaxSize
MaxSize == 2
\* stable_checks ranges over 1..MaxStable
MaxStable == 3

WatchInit ==
    /\ w_pc = "polling"
    /\ w_result = "none"
    /\ stable_checks \in 1..MaxStable
    /\ last_size = 0 - 1
    /\ stable_count = 0
    /\ w_stop = FALSE
    /\ hist = <<>>

\* sig_handler sets stop_flag while the watcher thread waits
WatchStopRequested ==
    /\ w_pc = "polling" /\ ~w_stop
    /\ w_stop' = TRUE
    /\ UNCHANGED <<w_pc, w_result, stable_checks, last_size, stable_count, hist>>
    /\ UNCHANGED <<supVars, retVars, upVars, recVars>>

\* the loop test fails: the wait is given up
WatchCancelled ==
    /\ w_pc = "polling" /\ w_stop
    /\ w_pc' = "returned"
    /\ w_result' = "Cancelled"
    /\ UNCHANGED <<stable_checks, last_size, stable_count, w_stop, hist>>
    /\ UNCHANGED <<supVars, retVars, upVars, recVars>>

\* os.path.exists(path) is false
WatchVanished ==
    /\ w_pc = "polling" /\ ~w_stop
    /\ w_pc' = "returned"
    /\ w_result' = "Vanished"
    /\ UNCHANGED <<stable_checks, last_size, stable_count, w_stop, hist>>
    /\ UNCHANGED <<supVars, retVars, upVars, recVars>>

\* one poll that reads the size: the comparison with last_size, the counter
WatchPoll_CountsFirst(size) ==
    /\ hist' = Append(hist, size)
    /\ IF (size = last_size \/ last_size < 0) /\ size > 0
       THEN /\ stable_count' = stable_count + 1
            /\ last_size' = size
            /\ IF stable_count' >= stable_checks
               THEN w_pc' = "returned" /\ w_result' = "Stable"
               ELSE UNCHANGED <<w_pc, w_result>>
       ELSE /\ stable_count' = 0
            /\ last_size' = size
            /\ UNCHANGED <<w_pc, w_result>>
    /\ UNCHANGED <<stable_checks, w_stop>>

WatchPoll_ZeroCounts(size) ==
    /\ hist' = Append(hist, size)
    /\ IF size = last_size
       THEN /\ stable_count' = stable_count + 1
            /\ UNCHANGED last_size
            /\ IF stable_count' >= stable_checks
               THEN w_pc' = "returned" /\ w_result' = "Stable"
               ELSE UNCHANGED <<w_pc, w_result>>
       ELSE /\ stable_count' = 0
            /\ last_size' = size
            /\ UNCHANGED <<w_pc, w_result>>
    /\ UNCHANGED <<stable_checks, w_stop>>

WatchPoll(size) ==
    /\ hist' = Append(hist, size)
    /\ IF size = last_size /\ size > 0
       THEN /\ stable_count' = stable_count + 1
            /\ UNCHANGED last_size
            /\ IF stable_count' >= stable_checks
               THEN w_pc' = "returned" /\ w_result' = "Stable"
               ELSE UNCHANGED <<w_pc, w_result>>
       ELSE /\ stable_count' = 0
            /\ last_size' = size
            /\ UNCHANGED <<w_pc, w_result>>
    /\ UNCHANGED <<stable_checks, w_stop>>

WatchStep ==
    /\ w_pc = "polling" /\ ~w_stop
    /\ Len(hist) < MaxPolls
    /\ \E size \in 0..MaxSize : WatchPoll(size)
    /\ UNCHANGED <<supVars, retVars, upVars, recVars>>

WatchNext == WatchStopRequested \/ WatchCancelled \/ WatchVanished \/ WatchStep


(***************************************************************************)
(* limpieza_disco.py: main, needs_cleanup, fs_space_stats, collect_files.  *)
(***************************************************************************)
\* the files under root are 1..NFiles
NFiles == 3
\* modification times range over 1..MaxMtime
MaxMtime == 2
\* --max-delete ranges over 0..MaxCap
MaxCap == 2
\* the size of the filesystem, in GB
TotalGB == 4
\* other processes interfere with the tree or the free space at most this often
MaxEnv == 1

Files == 1..NFiles

\* the tree: root, root/a, root/a/b
Parent(d) == IF d = "b" THEN "a" ELSE "root"
DirOf(f) == IF f % 3 = 1 THEN "b" ELSE IF f % 3 = 0 THEN "a" ELSE "root"
\* every file is 1 GB
SizeOf(f) == 1

\* the names of the files, as sequences of characters: two recordings, a text
\* file, and a hidden file that is all "extension"
NameOf(f) ==
    IF f % 4 = 1 THEN <<"a", ".", "m", "p", "4">>
    ELSE IF f % 4 = 2 THEN <<"a", ".", "t", "x", "t">>
    ELSE IF f % 4 = 3 THEN <<"a", ".", "b", ".", "M", "P", "4">>
    ELSE <<".", "m", "p", "4">>

\* --ext Mp4 .mkv
args_ext == {<<"M", "p", "4">>, <<".", "m", "k", "v">>}

\* str.lower
LowerChar(c) ==
    CASE c = "M" -> "m" [] c = "P" -> "p" [] c = "K" -> "k" [] c = "V" -> "v"
      [] c = "T" -> "t" [] c = "X" -> "x" [] c = "A" -> "a" [] c = "B" -> "b"
      [] OTHER -> c
Lower(s) == [i \in 1..Len(s) |-> LowerChar(s[i])]

\* str.lstrip(".")
RECURSIVE LStripDots(_)
LStripDots(s) == IF s # <<>> /\ Head(s) = "." THEN LStripDots(Tail(s)) ELSE s

\* Path.suffix: from the last dot of the name on, unless that dot is the first
\* or the last character
LastDot(s) ==
    IF \E i \in 1..Len(s) : s[i] = "."
    THEN CHOOSE i \in 1..Len(s) : s[i] = "." /\ \A j \in (i + 1)..Len(s) : s[j] # "."
    ELSE 0
Suffix(s) ==
    IF 1 < LastDot(s) /\ LastDot(s) < Len(s)
    THEN SubSeq(s, LastDot(s), Len(s))
    ELSE <<>>

\* exts_lower = {e.lower().lstrip(".") for e in exts}
exts_lower == {LStripDots(Lower(e)) : e \in args_ext}

\* p.suffix.lower().lstrip(".") in exts_lower
HasEligibleExt_Any(f) == TRUE
HasEligibleExt(f) == LStripDots(Lower(Suffix(NameOf(f)))) \in exts_lower

\* fs_space_stats: free_percent = (free / total * 100.0) if total > 0 else 0.0
FreePercent(fr) == IF TotalGB > 0 THEN (fr * 100) \div TotalGB ELSE 0

needs_cleanup_Inclusive(free_percent, free_gb, min_p, min_g) ==
    IF min_p > 0 /\ free_percent <= min_p THEN TRUE
    ELSE IF min_g > 0 /\ free_gb <= min_g THEN TRUE
    ELSE FALSE

needs_cleanup_Both(free_percent, free_gb, min_p, min_g) ==
    IF min_p > 0 /\ free_percent < min_p
    THEN (IF min_g > 0 /\ free_gb < min_g THEN TRUE ELSE FALSE)
    ELSE FALSE

needs_cleanup(free_percent, free_gb, min_p, min_g) ==
    IF min_p > 0 /\ free_percent < min_p THEN TRUE
    ELSE IF min_g > 0 /\ free_gb < min_g THEN TRUE
    ELSE FALSE

\* fs_space_stats(root) followed by needs_cleanup(...)
NeedsCleanupNow == needs_cleanup(FreePercent(free), free, min_percent, min_gb)

\* collect_files: the files that exist and carry an allowed extension
collect_files == {f \in present : HasEligibleExt(f)}

\* files.sort(key=lambda p: p.stat().st_mtime): ascending; the order of equal
\* keys is that of rglob, which is any
Range(s) == {s[i] : i \in 1..Len(s)}
Orderings(S) == {s \in [1..Cardinality(S) -> S] : Range(s) = S}
SortedByMtime_Descending(s) ==
    \A i, j \in 1..Len(s) : i < j => mtime[s[i]] >= mtime[s[j]]
SortedByMtime(s) ==
    \A i, j \in 1..Len(s) : i < j => mtime[s[i]] <= mtime[s[j]]

\* not any(parent.iterdir())
IsEmptyDir_FilesOnly(d, pres, ds) ==
    \A f \in pres : DirOf(f) # d

IsEmptyDir(d, pres, ds) ==
    /\ \A f \in pres : DirOf(f) # d
    /\ \A c \in ds : c = "root" \/ c = d \/ Parent(c) # d

\* while parent != root and not any(parent.iterdir()): parent.rmdir();
\* parent = parent.parent
RECURSIVE Prune(_, _, _)
Prune(d, pres, ds) ==
    IF d # "root" /\ d \in ds /\ IsEmptyDir(d, pres, ds)
    THEN Prune(Parent(d), pres, ds \ {d})
    ELSE ds

NoPrev == [ran |-> FALSE, dry |-> FALSE, free_end |-> 0, rlog |-> <<>>,
           clean |-> FALSE, start |-> [present |-> {}, dirs |-> {}, free |-> 0]]

RetInit ==
    /\ r_pc = "start"
    /\ pass = 1
    /\ dry_run \in BOOLEAN
    /\ max_delete \in 0..MaxCap
    /\ min_percent \in {0, 50}
    /\ min_gb \in {0, 2}
    /\ free \in 0..TotalGB
    /\ present = Files
    /\ dirs = {"root", "a", "b"}
    /\ mtime \in [Files -> 1..MaxMtime]
    /\ \A f \in Files : ~HasEligibleExt(f) => mtime[f] = 1
    /\ listed = {}
    /\ files = <<>>
    /\ idx = 1
    /\ deleted_count = 0
    /\ rlog = <<>>
    /\ warned = FALSE
    /\ cap_warned = FALSE
    /\ env_touched = FALSE
    /\ env_count = 0
    /\ env_gone = {}
    /\ start_fs = [present |-> present, dirs |-> dirs, free |-> free]
    /\ prev = NoPrev

\* ---- the environment: the recorder, the uploader, other processes ----
\* The free space changes under the pass, by the size of one file.  The pass reads it at the start, in
\* each iteration and at the end, so a change is placed right before a read.
EnvFreeChanges ==
    /\ r_pc \in {"start", "loop", "final"} /\ env_count < MaxEnv
    /\ \E v \in {free - SizeOf(1), free + SizeOf(1)} \cap (0..TotalGB) : free' = v
    /\ env_touched' = TRUE
    /\ env_count' = env_count + 1
    /\ UNCHANGED <<r_pc, pass, dry_run, max_delete, min_percent, min_gb, present,
                   dirs, mtime, listed, files, idx, deleted_count, rlog, warned,
                   cap_warned, env_gone, start_fs, prev>>
    /\ UNCHANGED <<supVars, watchVars, upVars, recVars>>

\* A file is removed under the pass.  The pass looks at the files when it
\* lists, sorts and walks them, so a removal is placed right before a look.
EnvFileVanishes ==
    /\ r_pc \in {"collect", "sort", "loop"} /\ env_count < MaxEnv
    /\ \E f \in present :
          /\ present' = present \ {f}
          /\ env_gone' = env_gone \cup {f}
    /\ env_touched' = TRUE
    /\ env_count' = env_count + 1
    /\ UNCHANGED <<r_pc, pass, dry_run, max_delete, min_percent, min_gb, free,
                   dirs, mtime, listed, files, idx, deleted_count, rlog, warned,
                   cap_warned, start_fs, prev>>
    /\ UNCHANGED <<supVars, watchVars, upVars, recVars>>

\* ---- main ----
\* the initial analysis: fs_space_stats, needs_cleanup, the early return
RetStart ==
    /\ r_pc = "start"
    /\ r_pc' = IF NeedsCleanupNow THEN "collect" ELSE "done"
    /\ UNCHANGED <<pass, dry_run, max_delete, min_percent, min_gb, free, present,
                   dirs, mtime, listed, files, idx, deleted_count, rlog, warned,
                   cap_warned, env_touched, env_count, env_gone, start_fs, prev>>
    /\ UNCHANGED <<supVars, watchVars, upVars, recVars>>

\* files = collect_files(root, args.ext)
RetCollect ==
    /\ r_pc = "collect"
    /\ listed' = collect_files
    /\ r_pc' = "sort"
    /\ UNCHANGED <<pass, dry_run, max_delete, min_percent, min_gb, free, present,
                   dirs, mtime, files, idx, deleted_count, rlog, warned,
                   cap_warned, env_touched, env_count, env_gone, start_fs, prev>>
    /\ UNCHANGED <<supVars, watchVars, upVars, recVars>>

\* files.sort(...): p.stat() raises FileNotFoundError for a listed file that is
\* gone, and nothing catches it; then the "no files" return, or the loop
RetSort ==
    /\ r_pc = "sort"
    /\ IF listed \ present # {}
       THEN r_pc' = "crashed" /\ UNCHANGED files
       ELSE /\ \E s \in Orderings(listed) : SortedByMtime(s) /\ files' = s
            /\ r_pc' = IF listed = {} THEN "done" ELSE "loop"
    /\ UNCHANGED <<pass, dry_run, max_delete, min_percent, min_gb, free, present,
                   dirs, mtime, listed, idx, deleted_count, rlog, warned,
                   cap_warned, env_touched, env_count, env_gone, start_fs, prev>>
    /\ UNCHANGED <<supVars, watchVars, upVars, recVars>>

\* deleted_count >= args.max_delete
CapReached_OffByOne == deleted_count > max_delete
CapReached == deleted_count >= max_delete

LogLine(op, f) == Append(rlog, [op |-> op, f |-> f])

\* the for loop has run out of candidates
RetLoopEnd ==
    /\ r_pc = "loop" /\ idx > Len(files)
    /\ r_pc' = "final"
    /\ UNCHANGED <<pass, dry_run, max_delete, min_percent, min_gb, free, present,
                   dirs, mtime, listed, files, idx, deleted_count, rlog, warned,
                   cap_warned, env_touched, env_count, env_gone, start_fs, prev>>
    /\ UNCHANGED <<supVars, watchVars, upVars, recVars>>

\* one iteration of "for f in files": the cap, the fresh free space, the stat,
\* then the simulation line or the unlink with the pruning of the parents
RetIter_IgnoresDryRun ==
    /\ r_pc = "loop" /\ idx <= Len(files)
    /\ LET f == files[idx] IN
       IF CapReached
       THEN /\ cap_warned' = TRUE
            /\ r_pc' = "final"
            /\ UNCHANGED <<idx, rlog, present, dirs, free, deleted_count>>
       ELSE IF ~NeedsCleanupNow
       THEN /\ r_pc' = "final"
            /\ UNCHANGED <<idx, rlog, present, dirs, free, deleted_count, cap_warned>>
       ELSE IF f \notin present
       THEN /\ rlog' = LogLine("vanished", f)
            /\ idx' = idx + 1
            /\ r_pc' = "loop"
            /\ UNCHANGED <<present, dirs, free, deleted_count, cap_warned>>
       ELSE /\ present' = present \ {f}
            /\ deleted_count' = deleted_count + 1
            /\ free' = Min(free + SizeOf(f), TotalGB)
            /\ dirs' = Prune(DirOf(f), present', dirs)
            /\ rlog' = LogLine("deleted", f)
            /\ idx' = idx + 1
            /\ r_pc' = "loop"
            /\ UNCHANGED cap_warned
    /\ UNCHANGED <<pass, dry_run, max_delete, min_percent, min_gb, mtime, listed,
                   files, warned, env_touched, env_count, env_gone, start_fs, prev>>
    /\ UNCHANGED <<supVars, watchVars, upVars, recVars>>

RetIter_NoRecheck ==
    /\ r_pc = "loop" /\ idx <= Len(files)
    /\ LET f == files[idx] IN
       IF CapReached
       THEN /\ cap_warned' = TRUE
            /\ r_pc' = "final"
            /\ UNCHANGED <<idx, rlog, present, dirs, free, deleted_count>>
       ELSE IF f \notin present
       THEN \* f.stat() raises FileNotFoundError: continue
            /\ rlog' = LogLine("vanished", f)
            /\ idx' = idx + 1
            /\ r_pc' = "loop"
            /\ UNCHANGED <<present, dirs, free, deleted_count, cap_warned>>
       ELSE IF dry_run
       THEN /\ rlog' = LogLine("would", f)
            /\ idx' = idx + 1
            /\ r_pc' = "loop"
            /\ UNCHANGED <<present, dirs, free, deleted_count, cap_warned>>
       ELSE \/ \* f.unlink() succeeds
               /\ present' = present \ {f}
               /\ deleted_count' = deleted_count + 1
               /\ free' = Min(free + SizeOf(f), TotalGB)
               /\ dirs' = Prune(DirOf(f), present', dirs)
               /\ rlog' = LogLine("deleted", f)
               /\ idx' = idx + 1
               /\ r_pc' = "loop"
               /\ UNCHANGED cap_warned
            \/ \* f.unlink() raises: except Exception, logged
               /\ rlog' = LogLine("failed", f)
               /\ idx' = idx + 1
               /\ r_pc' = "loop"
               /\ UNCHANGED <<present, dirs, free, deleted_count, cap_warned>>
    /\ UNCHANGED <<pass, dry_run, max_delete, min_percent, min_gb, mtime, listed,
                   files, warned, env_touched, env_count, env_gone, start_fs, prev>>
    /\ UNCHANGED <<supVars, watchVars, upVars, recVars>>

RetIter_FailureIsFatal ==
    /\ r_pc = "loop" /\ idx <= Len(files)
    /\ LET f == files[idx] IN
       IF CapReached
       THEN /\ cap_warned' = TRUE
            /\ r_pc' = "final"
            /\ UNCHANGED <<idx, rlog, present, dirs, free, deleted_count>>
       ELSE IF ~NeedsCleanupNow
       THEN /\ r_pc' = "final"
            /\ UNCHANGED <<idx, rlog, present, dirs, free, deleted_count, cap_warned>>
       ELSE IF f \notin present
       THEN /\ rlog' = LogLine("vanished", f)
            /\ idx' = idx + 1
            /\ r_pc' = "loop"
            /\ UNCHANGED <<present, dirs, free, deleted_count, cap_warned>>
       ELSE IF dry_run
       THEN /\ rlog' = LogLine("would", f)
            /\ idx' = idx + 1
            /\ r_pc' = "loop"
            /\ UNCHANGED <<present, dirs, free, deleted_count, cap_warned>>
       ELSE \/ /\ present' = present \ {f}
               /\ deleted_count' = deleted_count + 1
               /\ free' = Min(free + SizeOf(f), TotalGB)
               /\ dirs' = Prune(DirOf(f), present', dirs)
               /\ rlog' = LogLine("deleted", f)
               /\ idx' = idx + 1
               /\ r_pc' = "loop"
               /\ UNCHANGED cap_warned
            \/ /\ rlog' = LogLine("failed", f)
               /\ r_pc' = "crashed"
               /\ UNCHANGED <<idx, present, dirs, free, deleted_count, cap_warned>>
    /\ UNCHANGED <<pass, dry_run, max_delete, min_percent, min_gb, mtime, listed,
                   files, warned, env_touched, env_count, env_gone, start_fs, prev>>
    /\ UNCHANGED <<supVars, watchVars, upVars, recVars>>

RetIter ==
    /\ r_pc = "loop" /\ idx <= Len(files)
    /\ LET f == files[idx] IN
       IF CapReached
       THEN /\ cap_warned' = TRUE
            /\ r_pc' = "final"
            /\ UNCHANGED <<idx, rlog, present, dirs, free, deleted_count>>
       ELSE IF ~NeedsCleanupNow
       THEN /\ r_pc' = "final"
            /\ UNCHANGED <<idx, rlog, present, dirs, free, deleted_count, cap_warned>>
       ELSE IF f \notin present
       THEN \* f.stat() raises FileNotFoundError: continue
            /\ rlog' = LogLine("vanished", f)
            /\ idx' = idx + 1
            /\ r_pc' = "loop"
            /\ UNCHANGED <<present, dirs, free, deleted_count, cap_warned>>
       ELSE IF dry_run
       THEN /\ rlog' = LogLine("would", f)
            /\ idx' = idx + 1
            /\ r_pc' = "loop"
            /\ UNCHANGED <<present, dirs, free, deleted_count, cap_warned>>
       ELSE \/ \* f.unlink() succeeds
               /\ present' = present \ {f}
               /\ deleted_count' = deleted_count + 1
               /\ free' = Min(free + SizeOf(f), TotalGB)
               /\ dirs' = Prune(DirOf(f), present', dirs)
               /\ rlog' = LogLine("deleted", f)
               /\ idx' = idx + 1
               /\ r_pc' = "loop"
               /\ UNCHANGED cap_warned
            \/ \* f.unlink() raises: except Exception, logged
               /\ rlog' = LogLine("failed", f)
               /\ idx' = idx + 1
               /\ r_pc' = "loop"
               /\ UNCHANGED <<present, dirs, free, deleted_count, cap_warned>>
    /\ UNCHANGED <<pass, dry_run, max_delete, min_percent, min_gb, mtime, listed,
                   files, warned, env_touched, env_count, env_gone, start_fs, prev>>
    /\ UNCHANGED <<supVars, watchVars, upVars, recVars>>

\* the final summary: fs_space_stats, the count, the warning
RetFinal_NoWarning ==
    /\ r_pc = "final"
    /\ warned' = FALSE
    /\ r_pc' = "done"
    /\ UNCHANGED <<pass, dry_run, max_delete, min_percent, min_gb, free, present,
                   dirs, mtime, listed, files, idx, deleted_count, rlog,
                   cap_warned, env_touched, env_count, env_gone, start_fs, prev>>
    /\ UNCHANGED <<supVars, watchVars, upVars, recVars>>

RetFinal ==
    /\ r_pc = "final"
    /\ warned' = NeedsCleanupNow
    /\ r_pc' = "done"
    /\ UNCHANGED <<pass, dry_run, max_delete, min_percent, min_gb, free, present,
                   dirs, mtime, listed, files, idx, deleted_count, rlog,
                   cap_warned, env_touched, env_count, env_gone, start_fs, prev>>
    /\ UNCHANGED <<supVars, watchVars, upVars, recVars>>

\* the script is invoked again, with the same thresholds and cap
RetInvokeAgain ==
    /\ r_pc = "done" /\ pass = 1
    /\ pass' = pass + 1
    /\ dry_run' \in BOOLEAN
    /\ prev' = [ran |-> TRUE, dry |-> dry_run, free_end |-> free, rlog |-> rlog,
                clean |-> ~env_touched, start |-> start_fs]
    /\ r_pc' = "start"
    /\ listed' = {}
    /\ files' = <<>>
    /\ idx' = 1
    /\ deleted_count' = 0
    /\ rlog' = <<>>
    /\ warned' = FALSE
    /\ cap_warned' = FALSE
    /\ env_touched' = FALSE
    /\ env_gone' = {}
    /\ start_fs' = [present |-> present, dirs |-> dirs, free |-> free]
    /\ UNCHANGED <<max_delete, min_percent, min_gb, free, present, dirs, mtime, env_count>>
    /\ UNCHANGED <<supVars, watchVars, upVars, recVars>>

RetNext ==
    \/ EnvFreeChanges \/ EnvFileVanishes
    \/ RetStart \/ RetCollect \/ RetSort \/ RetLoopEnd \/ RetIter \/ RetFinal
    \/ RetInvokeAgain

(***************************************************************************)
(* app.py: UploadHandler.on_created and upload_to_minio.                   *)
(***************************************************************************)
\* the files created under OUTPUT_DIR are 1..NPaths; entry 0 is a day directory
NPaths == 3
\* the default of wait_until_file_complete's parameter stable_checks
STABLE_CHECKS == 3

Entries == 0..NPaths
IsDirectory(p) == p = 0

\* the paths: recordings/2025-01-02/<name>
DirPart == <<"r", "e", "c", "/", "2", "0", "2", "5", "-", "0", "1", "-", "0", "2">>
FileName(p) ==
    IF p % 4 = 1 THEN <<"L", "u", "n", "e", "s", "_", "2", "0", "2", "5", "-", "0", "1", "-", "0", "2", "_", "1", "3", "-", "0", "0", "-", "0", "0", ".", "m", "p", "4">>
    ELSE IF p % 4 = 2 THEN <<"c", "l", "i", "p", "_", "v", "1", "-", "f", "i", "n", "a", "l", "-", "c", "u", "t", ".", "m", "p", "4">>
    ELSE IF p % 4 = 3 THEN <<"M", "a", "r", "t", "e", "s", "_", "2", "0", "2", "5", "-", "1", "2", "-", "3", "1", "_", "0", "0", "-", "0", "0", "-", "0", "0", ".", "m", "p", "4">>
    ELSE <<"a", "_", "b", "_", "c", ".", "m", "p", "4">>
PathOf(p) == DirPart \o <<"/">> \o FileName(p)

\* os.path.basename
RECURSIVE Basename(_)
Basename(s) ==
    IF \E i \in 1..Len(s) : s[i] = "/"
    THEN Basename(SubSeq(s, (CHOOSE i \in 1..Len(s) : s[i] = "/") + 1, Len(s)))
    ELSE s

\* str.split(sep)
RECURSIVE Split(_, _)
Split(s, sep) ==
    IF \E i \in 1..Len(s) : s[i] = sep
    THEN LET i == CHOOSE k \in 1..Len(s) : s[k] = sep /\ \A j \in 1..(k - 1) : s[j] # sep
         IN  <<SubSeq(s, 1, i - 1)>> \o Split(SubSeq(s, i + 1, Len(s)), sep)
    ELSE <<s>>

\* MESES_ES.get(mes_num, mes_num)
MESES_ES(m) ==
    CASE
         m = <<"0", "1">> -> <<"e", "n", "e", "r", "o">>
      [] m = <<"0", "2">> -> <<"f", "e", "b", "r", "e", "r", "o">>
      [] m = <<"0", "3">> -> <<"m", "a", "r", "z", "o">>
      [] m = <<"0", "4">> -> <<"a", "b", "r", "i", "l">>
      [] m = <<"0", "5">> -> <<"m", "a", "y", "o">>
      [] m = <<"0", "6">> -> <<"j", "u", "n", "i", "o">>
      [] m = <<"0", "7">> -> <<"j", "u", "l", "i", "o">>
      [] m = <<"0", "8">> -> <<"a", "g", "o", "s", "t", "o">>
      [] m = <<"0", "9">> -> <<"s", "e", "p", "t", "i", "e", "m", "b", "r", "e">>
      [] m = <<"1", "0">> -> <<"o", "c", "t", "u", "b", "r", "e">>
      [] m = <<"1", "1">> -> <<"n", "o", "v", "i", "e", "m", "b", "r", "e">>
      [] m = <<"1", "2">> -> <<"d", "i", "c", "i", "e", "m", "b", "r", "e">>
      [] OTHER -> m

\* parts = filename.split("_"); fecha = parts[1]; año, mes_num, dia =
\* fecha.split("-"): IndexError or ValueError when the name has another shape
Parseable(filename) ==
    /\ Len(Split(filename, "_")) >= 2
    /\ Len(Split(Split(filename, "_")[2], "-")) = 3

\* key = f"{año}/{mes}/{dia}/{filename}"
ObjectKey_MonthNumber(filename) ==
    LET fecha == Split(Split(filename, "_")[2], "-")
    IN  fecha[1] \o <<"/">> \o fecha[2] \o <<"/">> \o fecha[3] \o <<"/">> \o filename

ObjectKey(filename) ==
    LET fecha == Split(Split(filename, "_")[2], "-")
    IN  fecha[1] \o <<"/">> \o MESES_ES(fecha[2]) \o <<"/">> \o fecha[3] \o <<"/">> \o filename

NewThread(p, n) ==
    [path |-> p, n |-> n, pc |-> "wait", last_size |-> 0 - 1, stable_count |-> 0,
     watch |-> "none", key |-> <<>>, result |-> "none"]

UpInit ==
    /\ u_created = {}
    /\ u_events = <<>>
    /\ u_threads = {}
    /\ u_store = {}
    /\ u_stop = FALSE
    /\ u_deleted = {}

\* ---- the environment: the capture process, the supervisor, signals ----
\* a segment file or a day directory is created; names carry the second of
\* their creation, so no path is created twice.  The entries are numbered in
\* the order of their creation, the day directory first.
EntryCreated ==
    /\ \E p \in Entries \ u_created :
          /\ \A q \in Entries \ u_created : p <= q
          /\ u_created' = u_created \cup {p}
          /\ u_events' = Append(u_events, [path |-> p, is_directory |-> IsDirectory(p)])
    /\ UNCHANGED <<u_deleted, u_threads, u_store, u_stop>>
    /\ UNCHANGED <<supVars, watchVars, retVars, recVars>>

\* sig_handler sets stop_flag
UpStopRequested ==
    /\ ~u_stop
    /\ u_stop' = TRUE
    /\ UNCHANGED <<u_deleted, u_created, u_events, u_threads, u_store>>
    /\ UNCHANGED <<supVars, watchVars, retVars, recVars>>

\* ---- UploadHandler.on_created ----
DispatchesOf(p) == {t \in u_threads : t.path = p}

on_created ==
    /\ u_events # <<>>
    /\ LET event == Head(u_events) IN
       IF event.is_directory
       THEN UNCHANGED u_threads
       ELSE u_threads' = u_threads \cup
                {NewThread(event.path, Cardinality(DispatchesOf(event.path)) + 1)}
    /\ u_events' = Tail(u_events)
    /\ UNCHANGED <<u_deleted, u_created, u_store, u_stop>>
    /\ UNCHANGED <<supVars, watchVars, retVars, recVars>>

\* ---- upload_to_minio, one thread per dispatch ----
\* a thread that has left wait_until_file_complete has lost that call's locals
Ended(t, res) ==
    [t EXCEPT !.pc = "end", !.result = res, !.last_size = 0 - 1, !.stable_count = 0]
Stable(t) ==
    [t EXCEPT !.pc = "parse", !.watch = "Stable", !.last_size = 0 - 1, !.stable_count = 0]

\* one poll of wait_until_file_complete(filepath) that reads the size
Polled(t, size) ==
    IF size = t.last_size /\ size > 0
    THEN IF t.stable_count + 1 >= STABLE_CHECKS
         THEN Stable(t)
         ELSE [t EXCEPT !.stable_count = t.stable_count + 1]
    ELSE [t EXCEPT !.stable_count = 0, !.last_size = size]

UpPoll ==
    /\ ~u_stop
    /\ \E t \in u_threads : \E size \in 0..MaxSize :
          /\ t.pc = "wait"
          /\ u_threads' = (u_threads \ {t}) \cup {Polled(t, size)}
    /\ UNCHANGED <<u_deleted, u_created, u_events, u_store, u_stop>>
    /\ UNCHANGED <<supVars, watchVars, retVars, recVars>>

\* the file is gone: os.path.exists is false and the wait returns False, or
\* os.path.getsize raises and the outer except Exception logs it
UpVanished ==
    /\ ~u_stop
    /\ \E t \in u_threads :
          /\ t.pc = "wait"
          /\ \E e \in {[Ended(t, "incomplete") EXCEPT !.watch = "Vanished"],
                       Ended(t, "error")} :
                u_threads' = (u_threads \ {t}) \cup {e}
    /\ UNCHANGED <<u_deleted, u_created, u_events, u_store, u_stop>>
    /\ UNCHANGED <<supVars, watchVars, retVars, recVars>>

\* stop_flag is set: the wait returns False
UpCancelled_Proceeds ==
    /\ u_stop
    /\ \E t \in u_threads :
          /\ t.pc = "wait"
          /\ u_threads' = (u_threads \ {t}) \cup
                {[t EXCEPT !.pc = "parse", !.watch = "Cancelled",
                           !.last_size = 0 - 1, !.stable_count = 0]}
    /\ UNCHANGED <<u_deleted, u_created, u_events, u_store, u_stop>>
    /\ UNCHANGED <<supVars, watchVars, retVars, recVars>>

UpCancelled ==
    /\ u_stop
    /\ \E t \in u_threads :
          /\ t.pc = "wait"
          /\ u_threads' = (u_threads \ {t}) \cup
                {[Ended(t, "incomplete") EXCEPT !.watch = "Cancelled"]}
    /\ UNCHANGED <<u_deleted, u_created, u_events, u_store, u_stop>>
    /\ UNCHANGED <<supVars, watchVars, retVars, recVars>>

\* the date is parsed from the name and the key is built
UpParse ==
    /\ \E t \in u_threads :
          /\ t.pc = "parse"
          /\ LET filename == Basename(PathOf(t.path)) IN
             u_threads' = (u_threads \ {t}) \cup
                {IF Parseable(filename)
                 THEN [t EXCEPT !.pc = "put", !.key = ObjectKey(filename)]
                 ELSE Ended(t, "unparseable")}
    /\ UNCHANGED <<u_deleted, u_created, u_events, u_store, u_stop>>
    /\ UNCHANGED <<supVars, watchVars, retVars, recVars>>

\* with open(filepath, "rb") as f: s3.upload_fileobj(f, MINIO_BUCKET, key):
\* the object is written, or the store raises, or open raises
UpPut_Requeues ==
    /\ \E t \in u_threads :
          /\ t.pc = "put"
          /\ \/ /\ u_store' = {o \in u_store : o.key # t.key}
                                \cup {[key |-> t.key, path |-> t.path]}
                /\ u_threads' = (u_threads \ {t}) \cup {Ended(t, "uploaded")}
             \/ /\ \E res \in {"store_error", "error"} :
                      u_threads' = (u_threads \ {t}) \cup
                           {Ended(t, res), NewThread(t.path, t.n + 1)}
                /\ UNCHANGED u_store
    /\ UNCHANGED <<u_deleted, u_created, u_events, u_stop>>
    /\ UNCHANGED <<supVars, watchVars, retVars, recVars>>

UpPut_RemovesLocal ==
    /\ \E t \in u_threads :
          /\ t.pc = "put"
          /\ \/ /\ u_store' = {o \in u_store : o.key # t.key}
                                \cup {[key |-> t.key, path |-> t.path]}
                /\ u_threads' = (u_threads \ {t}) \cup {Ended(t, "uploaded")}
                /\ UNCHANGED u_deleted
             \/ /\ \E res \in {"store_error", "error"} :
                      u_threads' = (u_threads \ {t}) \cup {Ended(t, res)}
                /\ u_deleted' = u_deleted \cup {t.path}
                /\ UNCHANGED u_store
    /\ UNCHANGED <<u_created, u_events, u_stop>>
    /\ UNCHANGED <<supVars, watchVars, retVars, recVars>>

UpPut ==
    /\ \E t \in u_threads :
          /\ t.pc = "put"
          /\ \/ /\ u_store' = {o \in u_store : o.key # t.key}
                                \cup {[key |-> t.key, path |-> t.path]}
                /\ u_threads' = (u_threads \ {t}) \cup {Ended(t, "uploaded")}
             \/ /\ \E res \in {"store_error", "error"} :
                      u_threads' = (u_threads \ {t}) \cup {Ended(t, res)}
                /\ UNCHANGED u_store
    /\ UNCHANGED <<u_deleted, u_created, u_events, u_stop>>
    /\ UNCHANGED <<supVars, watchVars, retVars, recVars>>

UpNext ==
    \/ EntryCreated \/ UpStopRequested \/ on_created
    \/ UpPoll \/ UpVanished \/ UpCancelled \/ UpParse \/ UpPut

(***************************************************************************)
(* The specifications: one per program.  The programs that do not run      *)
(* stay in one fixed initial state.                                        *)
(***************************************************************************)
(***************************************************************************)
(* grabador_ip.py: main and record_segment.                                *)
(***************************************************************************)
MaxAttempts == 3
MaxSegments == 2

\* how one attempt can go: open() or subprocess.run raises before FFmpeg has
\* run, or FFmpeg exits with a code and the writing and closing of the
\* segment log that follows, still inside the try, succeeds or raises
AttemptOutcomes ==
    {[rc |-> "none", raised |-> TRUE]}
        \cup [rc : {"0", "1"}, raised : BOOLEAN]

RecInit ==
    /\ g_pc = "top"
    /\ MAX_RETRIES \in 0..MaxAttempts
    /\ attempt = 0
    /\ ok = "None"
    /\ g_runs = <<>>
    /\ segments = 0
    /\ cleanups = 0

\* while True: duration, outfile = build_outfile() (its makedirs may raise:
\* except Exception, FATAL), then record_segment is entered
RecNewSegment ==
    /\ g_pc = "top" /\ segments < MaxSegments
    /\ \/ /\ segments' = segments + 1
          /\ attempt' = 1
          /\ ok' = "None"
          /\ g_runs' = <<>>
          /\ g_pc' = "for"
       \/ /\ g_pc' = "ended"
          /\ UNCHANGED <<segments, attempt, ok, g_runs>>
    /\ UNCHANGED <<MAX_RETRIES, cleanups>>
    /\ UNCHANGED <<supVars, watchVars, retVars, upVars>>

\* one pass through the body of "for attempt in range(1, MAX_RETRIES + 1)":
\* return True when nothing raised and returncode == 0, else the sleep
RecAttempt ==
    /\ g_pc = "for" /\ attempt <= MAX_RETRIES
    /\ \E o \in AttemptOutcomes :
          /\ g_runs' = Append(g_runs, o)
          /\ IF ~o.raised /\ o.rc = "0"
             THEN ok' = "True" /\ g_pc' = "returned"
             ELSE ok' = ok /\ g_pc' = "retry_sleep"
    /\ UNCHANGED <<MAX_RETRIES, attempt, segments, cleanups>>
    /\ UNCHANGED <<supVars, watchVars, retVars, upVars>>

\* after time.sleep(RETRY_SLEEP): the next value of the range
RecRetryWake ==
    /\ g_pc = "retry_sleep"
    /\ attempt' = attempt + 1
    /\ g_pc' = "for"
    /\ UNCHANGED <<MAX_RETRIES, ok, g_runs, segments, cleanups>>
    /\ UNCHANGED <<supVars, watchVars, retVars, upVars>>

\* the range is used up: the error line, return False
RecGiveUp ==
    /\ g_pc = "for" /\ attempt > MAX_RETRIES
    /\ ok' = "False"
    /\ g_pc' = "returned"
    /\ UNCHANGED <<MAX_RETRIES, attempt, g_runs, segments, cleanups>>
    /\ UNCHANGED <<supVars, watchVars, retVars, upVars>>

\* cleanup_old(); the error line "if not ok"; time.sleep(2); the loop again
RecCleanup ==
    /\ g_pc = "returned"
    /\ cleanups' = cleanups + 1
    /\ g_pc' = "top"
    /\ UNCHANGED <<MAX_RETRIES, attempt, ok, g_runs, segments>>
    /\ UNCHANGED <<supVars, watchVars, retVars, upVars>>

\* KeyboardInterrupt, which no "except Exception" holds back: main ends
RecInterrupt ==
    /\ g_pc # "ended"
    /\ g_pc' = "ended"
    /\ UNCHANGED <<MAX_RETRIES, attempt, ok, g_runs, segments, cleanups>>
    /\ UNCHANGED <<supVars, watchVars, retVars, upVars>>

RecNext ==
    \/ RecNewSegment \/ RecAttempt \/ RecRetryWake \/ RecGiveUp
    \/ RecCleanup \/ RecInterrupt

RecIdle == RecInit /\ MAX_RETRIES = 0

SupIdle == SupInit /\ prog = "app" /\ max_retries = 0
WatchIdle == WatchInit /\ stable_checks = 1
RetIdle ==
    /\ RetInit
    /\ ~dry_run /\ max_delete = 0 /\ min_percent = 0 /\ min_gb = 0 /\ free = 0
    /\ mtime = [f \in Files |-> 1]

\* the supervisors of app.py and tui_app.py
Init == SupInit /\ WatchIdle /\ RetIdle /\ UpInit /\ RecIdle
Next == SupNext
Spec == Init /\ [][Next]_vars

\* The steps of the supervisor's own code are taken sooner or later: sleeps
\* end, awaited calls return.  Nothing is assumed of the clock, of a capture
\* process that nobody asked to end, or of the arrival of a stop request.
SupFairness ==
    /\ WF_vars(AppLaunch) /\ WF_vars(AppPollCheck) /\ WF_vars(AppPollWake)
    /\ WF_vars(AppExited) /\ WF_vars(AppRetryWake) /\ WF_vars(AppErrWake)
    /\ WF_vars(AppSignalWaitDone)
    /\ WF_vars(TuiTop) /\ WF_vars(TuiLaunched) /\ WF_vars(TuiReadLine)
    /\ WF_vars(TuiWaitDone) /\ WF_vars(TuiRetryWake) /\ WF_vars(TuiErrWake)
    /\ WF_vars(TuiStopTermWait) /\ WF_vars(TuiStopKillWait)
FairSpec == Spec /\ SupFairness

\* wait_until_file_complete
InitWatch == SupIdle /\ WatchInit /\ RetIdle /\ UpInit /\ RecIdle
SpecWatch == InitWatch /\ [][WatchNext]_vars

\* limpieza_disco.py
InitRet == SupIdle /\ WatchIdle /\ RetInit /\ UpInit /\ RecIdle
SpecRet == InitRet /\ [][RetNext]_vars

\* the upload dispatcher of app.py
InitUp == SupIdle /\ WatchIdle /\ RetIdle /\ UpInit /\ RecIdle
SpecUp == InitUp /\ [][UpNext]_vars

\* the hourly recorder of grabador_ip.py
InitRec == SupIdle /\ WatchIdle /\ RetIdle /\ UpInit /\ RecInit
SpecRec == InitRec /\ [][RecNext]_vars

(***************************************************************************)
(* The properties.                                                         *)
(***************************************************************************)

\* C1: the Nth backoff sleep of the supervisor lasts
\* min(RETRY_BACKOFF_FIRST * 2^(N-1), RETRY_BACKOFF_MAX) seconds: 5, 10, 20,
\* 40, 60, 60, ... whatever the exits that led to the retries.
C1_BackoffSequence ==
    \A n \in 1..Len(sleeps) :
        sleeps[n] = Min(RETRY_BACKOFF_FIRST * Pow2(n - 1), RETRY_BACKOFF_MAX)

\* six retries have slept, the last two at the cap
C1_Witness == Len(sleeps) >= 6 /\ sleeps[5] = sleeps[6] /\ sleeps[4] < sleeps[5]

\* the step in which the supervisor judges the exit of the capture process,
\* no stop having been requested
ExitJudged ==
    /\ pc \in {"exited", "waiting"} /\ pc' # pc
    /\ proc.st = "dead"
    /\ ~stop_flag /\ ~stop_flag'

\* C2: an exit with code 0 without a stop request stops the supervisor and
\* leaves the retry counter alone; any other exit adds exactly one to it.
C2_CleanVsErrorExit ==
    [][ExitJudged =>
          IF proc.rc = "0"
          THEN retries' = retries /\ pc' \in {"stopped", "finished"}
          ELSE retries' = retries + 1]_vars

\* C3: once the date is D', no segment file is created under the directory of
\* an earlier day D: every segment file lies under the date of its creation.
C3_NoSegmentUnderStaleDay == lastSeg # NoSeg => lastSeg.dir = lastSeg.date

\* the last poll whose size differs from the one before it (the first poll
\* differs from the initial last_size = -1)
LastChange(h) ==
    CHOOSE k \in 1..Len(h) :
        /\ (k = 1 \/ h[k] # h[k - 1])
        /\ \A j \in (k + 1)..Len(h) : h[j] = h[j - 1]

\* C4 (as the code has it): Stable is returned stable_checks polls after the
\* last poll at which the size changed, the first poll counting as a change:
\* a constant positive size gives Stable at poll stable_checks + 1
\* ([10,10,10,10] -> 4 polls), a change at poll k gives Stable at poll
\* k + stable_checks ([10,20,20,20,20] -> 5 polls).
C4_StableAfterChecksPlusOne ==
    w_result = "Stable" =>
        /\ Len(hist) = LastChange(hist) + stable_checks
        /\ hist[Len(hist)] > 0

\* sizes [1,2,2,2,2] with stable_checks = 3: Stable at the fifth poll
C4_Witness ==
    /\ w_result = "Stable" /\ stable_checks = 3
    /\ Len(hist) = 5 /\ hist[1] # hist[2]

\* C4 (as claimed): Stable is returned stable_checks polls counted from the
\* poll of the last change, that poll included ([10,10,10] -> 3 polls,
\* [10,20,20,20] -> 4 polls).
C4_StableAfterExactlyChecks ==
    w_result = "Stable" => Len(hist) = LastChange(hist) + stable_checks - 1

\* what the running pass has removed itself
RemovedByPass == (start_fs.present \ present) \ env_gone
LoggedAs(lg, op) == SelectSeq(lg, LAMBDA e : e.op = op)
FilesOf(lg) == [i \in 1..Len(lg) |-> lg[i].f]
NoFailures(lg) == \A i \in 1..Len(lg) : lg[i].op \notin {"failed", "vanished"}

\* C5: a pass never deletes more than max_delete files.
C5_DeletionCap ==
    /\ Cardinality(RemovedByPass) <= max_delete
    /\ deleted_count <= max_delete

\* the cap stopped a pass that still had a candidate and an unmet threshold
C5_Witness ==
    /\ r_pc = "done" /\ ~dry_run /\ max_delete >= 1
    /\ Cardinality(RemovedByPass) = max_delete
    /\ cap_warned /\ idx <= Len(files)

\* C6: with more candidates than max_delete, every deletion succeeding and the
\* thresholds unmet to the end, the pass deletes exactly max_delete files and
\* logs the "threshold not reached" warning.
C6_CapReached ==
    (/\ r_pc = "done" /\ ~dry_run
     /\ Len(files) > max_delete
     /\ ~env_touched /\ NoFailures(rlog)
     /\ NeedsCleanupNow)
    => (/\ Cardinality(RemovedByPass) = max_delete
        /\ deleted_count = max_delete
        /\ warned)

C6_Witness ==
    /\ r_pc = "done" /\ ~dry_run /\ pass = 1
    /\ Len(files) > max_delete /\ max_delete >= 1
    /\ ~env_touched /\ NoFailures(rlog)
    /\ NeedsCleanupNow /\ warned
    /\ Len(LoggedAs(rlog, "deleted")) = max_delete

\* C7: a dry run leaves the tree as it found it (but for what other processes
\* removed) and counts zero deletions.
C7_DryRunPurity ==
    dry_run =>
        /\ present = start_fs.present \ env_gone
        /\ dirs = start_fs.dirs
        /\ deleted_count = 0
        /\ LoggedAs(rlog, "deleted") = <<>>

\* a dry run went through two candidates
C7_Witness ==
    /\ dry_run /\ r_pc = "done"
    /\ Len(LoggedAs(rlog, "would")) >= 2

\* C8: on the same input a dry run reports the files, in order, that a real
\* run deletes.  The dry run comes first, the real run follows on the
\* untouched tree; no two candidates share a modification time.
C8_DryRunParity ==
    (/\ pass = 2 /\ r_pc = "done"
     /\ prev.dry /\ ~dry_run
     /\ prev.clean /\ ~env_touched /\ start_fs = prev.start
     /\ NoFailures(rlog)
     /\ \A f, g \in listed : f # g => mtime[f] # mtime[g])
    => FilesOf(LoggedAs(prev.rlog, "would")) = FilesOf(LoggedAs(rlog, "deleted"))

\* the thresholds of the pass are satisfied by fr GB of free space
ThresholdsSatisfiedAt(fr) ==
    /\ (min_percent = 0 \/ FreePercent(fr) >= min_percent)
    /\ (min_gb = 0 \/ fr >= min_gb)

\* C9: a pass that follows, with the free space unchanged, a pass that ended
\* with the thresholds satisfied deletes nothing.
C9_Idempotence ==
    (pass = 2 /\ ThresholdsSatisfiedAt(prev.free_end) /\ ~env_touched)
    => (/\ deleted_count = 0
        /\ present = start_fs.present
        /\ dirs = start_fs.dirs
        /\ LoggedAs(rlog, "deleted") = <<>>)

\* the first pass deleted its way to the threshold, the second, a real one,
\* has ended
C9_Witness ==
    /\ pass = 2 /\ r_pc = "done" /\ ~dry_run /\ ~env_touched
    /\ ThresholdsSatisfiedAt(prev.free_end)
    /\ LoggedAs(prev.rlog, "deleted") # <<>>

\* C10: when a file is deleted, every listed file with an older modification
\* time was handled before it (deleted, found gone, or failed to delete), and
\* the deletions follow ascending modification times.
C10_OldestFirst ==
    \A i \in 1..Len(rlog) :
        rlog[i].op = "deleted" =>
            /\ \A g \in listed :
                  mtime[g] < mtime[rlog[i].f] =>
                      \E j \in 1..(i - 1) :
                          /\ rlog[j].f = g
                          /\ rlog[j].op \in {"deleted", "vanished", "failed"}
            /\ \A j \in 1..(i - 1) :
                  rlog[j].op = "deleted" => mtime[rlog[j].f] <= mtime[rlog[i].f]

\* two files of different age were deleted
C10_Witness ==
    \E i, j \in 1..Len(rlog) :
        /\ i < j
        /\ rlog[i].op = "deleted" /\ rlog[j].op = "deleted"
        /\ mtime[rlog[i].f] < mtime[rlog[j].f]

\* the extension of a file's name, lower-cased, without the leading dot
ExtensionOf(f) == LStripDots(Lower(Suffix(NameOf(f))))
EligibleExtensions == {LStripDots(Lower(e)) : e \in args_ext}

\* C11: a pass never deletes a file whose extension, compared without case and
\* without the leading dot, is not among the eligible extensions.
C11_ExtensionFilter ==
    /\ \A f \in RemovedByPass : ExtensionOf(f) \in EligibleExtensions
    /\ \A i \in 1..Len(rlog) :
          rlog[i].op \in {"deleted", "would"} => ExtensionOf(rlog[i].f) \in EligibleExtensions

\* a pass deleted a.mp4 and a.b.MP4 and left a.txt
C11_Witness ==
    /\ r_pc = "done" /\ ~dry_run
    /\ {1, 3} \subseteq RemovedByPass
    /\ 2 \in present

\* the capture processes that are alive: the one last launched, and those
\* launched earlier that no handle refers to any more
AliveCount == (IF proc.st = "alive" THEN 1 ELSE 0) + Cardinality(orphans)

\* C12: at most one capture process launched by the supervisor is alive, in
\* every state: after a rotation, a retry, a termination timeout, an exception.
C12_SingleCaptureProcess == AliveCount <= 1

\* the supervising loop has ended: main has left its loop or the interpreter
\* exits (app.py), Recorder.start has returned (tui_app.py)
Stopped == pc \in {"stopped", "exit", "finished"}

\* C13: once a stop is requested, in whatever state, the supervisor eventually
\* is Stopped with no capture process left alive.
C13_StopFromAnyState == stop_flag ~> (Stopped /\ AliveCount = 0)

\* the stop sequence is invoked although a stop was already requested
SecondStop == stop_flag /\ stop_calls' = stop_calls + 1

\* C14: a second invocation of the stop sequence sends no terminate or kill
\* request, emits no stop event and leaves the supervisor's state as it was.
C14_StopIdempotence ==
    [][SecondStop =>
          UNCHANGED <<stop_acts, stop_flag, pc, spc, proc, cur, retries, backoff, orphans>>]_vars

\* the dispatches of a path that have not ended
InFlight(p) == {t \in u_threads : t.path = p /\ t.pc # "end"}
EventPending(p) == \E i \in 1..Len(u_events) : u_events[i].path = p

\* C15: for every path at most one upload dispatch is in flight at any time; a
\* dispatch is started once per path, when the creation of the file is
\* delivered, and never again, whatever its outcome.  (Every path is created
\* once.)
C15_OneUploadPerPath ==
    \A p \in Entries :
        /\ Cardinality(InFlight(p)) <= 1
        /\ Cardinality(DispatchesOf(p)) <= 1
        /\ DispatchesOf(p) # {} => p \in u_created /\ ~IsDirectory(p)
        /\ (p \in u_created /\ ~IsDirectory(p) /\ ~EventPending(p))
              => Cardinality(DispatchesOf(p)) = 1

\* one dispatch has failed at the store and was not started again, while
\* another path's dispatch is in flight
C15_Witness ==
    \E t \in u_threads :
        /\ t.result = "store_error"
        /\ DispatchesOf(t.path) = {t}
        /\ \E q \in Entries \ {t.path} : InFlight(q) # {}

\* the segment files named <Label>_<YYYY-MM-DD>_<HH-MM-SS>.<ext>, and the key
\* <YYYY>/<month name>/<DD>/<filename> of each
WellNamed(p) == p % 4 \in {1, 3}
ExpectedKey(p) ==
    IF p % 4 = 1
    THEN <<"2", "0", "2", "5", "/", "e", "n", "e", "r", "o", "/", "0", "2", "/", "L", "u", "n", "e", "s", "_", "2", "0", "2", "5", "-", "0", "1", "-", "0", "2", "_", "1", "3", "-", "0", "0", "-", "0", "0", ".", "m", "p", "4">>
    ELSE <<"2", "0", "2", "5", "/", "d", "i", "c", "i", "e", "m", "b", "r", "e", "/", "3", "1", "/", "M", "a", "r", "t", "e", "s", "_", "2", "0", "2", "5", "-", "1", "2", "-", "3", "1", "_", "0", "0", "-", "0", "0", "-", "0", "0", ".", "m", "p", "4">>

\* C16: a segment file named <Label>_<YYYY-MM-DD>_<HH-MM-SS>.<ext> is stored
\* under the key <YYYY>/<name of month MM>/<DD>/<filename>, and under no other.
C16_ObjectKey ==
    \A o \in u_store : WellNamed(o.path) => o.key = ExpectedKey(o.path)

\* a segment of January and one of December are in the bucket
C16_Witness ==
    /\ \E o \in u_store : o.path = 1
    /\ \E o \in u_store : o.path = 3

\* the number of entries of the log with the given outcome
CountOf(lg, op) == Len(LoggedAs(lg, op))

\* the step in which f.unlink() raises
DeletionFails == CountOf(rlog', "failed") = CountOf(rlog, "failed") + 1

\* C17: a deletion that fails is logged and not counted, and the pass goes on
\* with the next candidate.  It still reaches its final summary: after a
\* failure the pass never crashes, its next step is always defined, and every
\* step of the loop moves to the next candidate or on to the summary.
C17_DeletionFailureNotFatal ==
    /\ [](deleted_count = CountOf(rlog, "deleted"))
    /\ [][DeletionFails =>
            /\ deleted_count' = deleted_count
            /\ present' = present
            /\ r_pc' = "loop" /\ idx' = idx + 1]_vars
    /\ [](CountOf(rlog, "failed") > 0 =>
            /\ r_pc \in {"loop", "final", "done"}
            /\ idx <= Len(files) + 1
            /\ r_pc = "loop" => ENABLED (RetIter \/ RetLoopEnd)
            /\ r_pc = "final" => ENABLED RetFinal)
    /\ [][(r_pc = "loop" /\ env_count' = env_count) =>
            \/ r_pc' = "loop" /\ idx' = idx + 1
            \/ r_pc' = "final"]_vars

\* a pass that failed to delete its first candidate deleted the second and
\* has ended
C17_Witness ==
    /\ r_pc = "done" /\ Len(rlog) >= 2
    /\ rlog[1].op = "failed" /\ rlog[2].op = "deleted"
    /\ deleted_count = 1

\* the loop has been left: by the break of the budget, or (tui_app.py) by one
\* of the other breaks
LoopLeft == pc \in {"stopped", "finished"}

\* a capture process is launched
Launches == proc' # proc /\ proc'.st = "alive"

\* C18: with a budget M > 0 the supervisor stops in the very step in which the
\* retry counter exceeds M, and launches nothing afterwards; up to M the
\* counted exits lead to the backoff sleep, and with M = 0 they always do.
C18_RetryBudget ==
    /\ []((max_retries > 0 /\ retries > max_retries) => LoopLeft)
    /\ [][retries' = retries + 1 =>
            IF max_retries > 0 /\ retries' > max_retries
            THEN LoopLeft'
            ELSE pc' = "retry_sleep"]_vars
    /\ [][LoopLeft => LoopLeft' /\ ~Launches]_vars

\* a budget of two: two retries slept, the third exit stopped the supervisor
C18_Witness ==
    /\ max_retries = 2 /\ retries = 3 /\ LoopLeft
    /\ Len(sleeps) = 2

\* the step in which the command of a launch is built (app.py: start_ffmpeg,
\* which also starts the process; tui_app.py: build_ffmpeg_cmd)
LaunchBuilt ==
    \/ prog = "app" /\ Launches
    \/ prog = "tui" /\ pc = "top" /\ pc' = "launching"

\* C19: every launch, the first one and every relaunch, is built with the day
\* key of the date at that moment.
C19_LaunchUsesCurrentDay ==
    [][LaunchBuilt =>
          (IF prog = "app" THEN proc'.dir ELSE current_day_dir') = today]_vars

\* the step in which app.py judges the exit of a process that the rotation
\* terminated (exit by SIGTERM, or by SIGKILL after the timeout)
RotationJudged ==
    /\ prog = "app" /\ pc = "exited" /\ pc' # pc
    /\ proc.rc \in {"-15", "-9"}
    /\ ~stop_flag /\ ~stop_flag'

\* C20: a rotation is not a failure: it leaves the retry counter and the
\* backoff alone, causes no backoff sleep, and goes back to launching; it
\* never stops the supervisor.
C20_RotationNotFailure ==
    [][RotationJudged =>
          /\ retries' = retries
          /\ backoff' = backoff /\ sleeps' = sleeps
          /\ pc' = "top"]_vars

\* the step in which the start of the capture process fails (start_ffmpeg or
\* create_subprocess_exec raises)
LaunchFails ==
    /\ \/ prog = "app" /\ pc = "top"
       \/ prog = "tui" /\ pc = "launching"
    /\ pc' # pc /\ proc' = proc
    /\ ~stop_flag /\ ~stop_flag'

\* C21: a launch that fails takes the retry path of an unexpected exit: it is
\* counted against the budget, and unless the budget is exceeded the current
\* backoff is slept (and doubled on waking) before the relaunch.
C21_LaunchFailureRetried ==
    [][LaunchFails =>
          /\ retries' = retries + 1
          /\ IF BudgetExceeded(retries')
             THEN LoopLeft'
             ELSE pc' = "retry_sleep" /\ sleeps' = Append(sleeps, backoff)]_vars

\* every poll so far has read the size 0
AllZero(h) == \A i \in 1..Len(h) : h[i] = 0

\* C22: the stable counter is incremented only by a poll whose size equals the
\* previous sample and is greater than zero, so a file that is empty at every
\* poll is never reported Stable, however many polls there are.
C22_ZeroSizeNeverStable ==
    /\ [](AllZero(hist) => w_result # "Stable")
    /\ [][stable_count' > stable_count =>
            /\ stable_count' = stable_count + 1
            /\ Len(hist) >= 1
            /\ hist'[Len(hist')] = hist[Len(hist)]
            /\ hist'[Len(hist')] > 0]_vars

\* five polls of an empty file with stable_checks = 1: still waiting
C22_Witness ==
    /\ stable_checks = 1 /\ Len(hist) >= 5 /\ AllZero(hist)
    /\ w_pc = "polling" /\ stable_count = 0

StoredPaths == {o.path : o \in u_store}

\* C23: an object is written for a path only by a dispatch whose wait returned
\* Stable; a dispatch whose wait ended because the file vanished or the wait
\* was cancelled has ended as incomplete and has written nothing.
C23_UploadOnlyAfterStable ==
    /\ [](\A o \in u_store :
            \E t \in u_threads :
                t.path = o.path /\ t.watch = "Stable" /\ t.result = "uploaded")
    /\ [](\A t \in u_threads :
            t.watch \in {"Vanished", "Cancelled"} =>
                /\ t.pc = "end" /\ t.result = "incomplete"
                /\ t.path \notin StoredPaths)
    /\ [][u_store' # u_store =>
            \E t \in u_threads :
                /\ t.pc = "put" /\ t.watch = "Stable"
                /\ u_store' \ u_store = {[key |-> t.key, path |-> t.path]}]_vars

\* one segment is in the bucket; the wait for another was given up (vanished
\* or cancelled) and nothing was written for it
C23_Witness ==
    /\ 1 \in StoredPaths
    /\ \E t \in u_threads :
          t.path = 3 /\ t.watch \in {"Vanished", "Cancelled"} /\ t.pc = "end"
    /\ 3 \notin StoredPaths

\* C24: a dispatch for a file whose name does not follow
\* <Label>_<YYYY-MM-DD>_<HH-MM-SS>.<ext> never gets to the transfer: once its
\* wait is over it has ended as unparseable, and no object is written for it.
C24_UnparseableNameAborts ==
    \A t \in u_threads :
        ~WellNamed(t.path) =>
            /\ t.pc # "put"
            /\ t.watch = "Stable" /\ t.pc = "end" => t.result = "unparseable"
            /\ t.path \notin StoredPaths

\* the dispatch t fails at the store in this step and is t2 afterwards
StoreFailure(t, t2) ==
    /\ t \in u_threads /\ t.pc = "put"
    /\ t2 \in u_threads' /\ t2.path = t.path /\ t2.n = t.n
    /\ t2.result = "store_error"

\* C25: a transfer that fails at the store ends that dispatch and nothing
\* else: it is not started again, no local file is touched, no object is
\* written, and the other dispatches and the supervisor are left as they were.
C25_StoreFailurePerItem ==
    /\ [](\A t \in u_threads :
            t.result = "store_error" =>
                /\ t.pc = "end"
                /\ DispatchesOf(t.path) = {t}
                /\ t.path \notin StoredPaths)
    /\ [](u_deleted = {})
    /\ [][\A t \in u_threads : \A t2 \in u_threads' :
            StoreFailure(t, t2) =>
                /\ u_threads' = (u_threads \ {t}) \cup {t2}
                /\ UNCHANGED <<u_store, u_deleted, u_events, u_created, u_stop, supVars>>]_vars

\* the transfer of one segment failed at the store; another segment, whose
\* dispatch was running at the time, is in the bucket
C25_Witness ==
    /\ \E t \in u_threads : t.path = 1 /\ t.result = "store_error"
    /\ 1 \notin StoredPaths /\ 3 \in StoredPaths
    /\ u_deleted = {}

\* cleanup is triggered at fr GB of free space: an enabled threshold is violated
Triggered(fr) ==
    \/ min_percent > 0 /\ FreePercent(fr) < min_percent
    \/ min_gb > 0 /\ fr < min_gb

\* what a pass lists, logs and deletes
PassEffects == <<present, dirs, listed, files, rlog, deleted_count>>

\* C26: cleanup is triggered iff an enabled threshold (one greater than 0) is
\* violated; a pass that finds the predicate false at its start ends at once,
\* having listed no candidate and deleted nothing.
C26_ThresholdPredicate ==
    /\ [](NeedsCleanupNow <=> Triggered(free))
    /\ []((min_percent = 0 /\ min_gb = 0) => ~NeedsCleanupNow)
    /\ [][(r_pc = "start" /\ r_pc' # r_pc) =>
            IF Triggered(free)
            THEN r_pc' = "collect"
            ELSE r_pc' = "done" /\ UNCHANGED PassEffects
                 /\ listed = {} /\ rlog = <<>> /\ deleted_count = 0]_vars
    /\ [][(r_pc = "done" /\ pass' = pass) => UNCHANGED PassEffects]_vars

\* free space exactly at the GB threshold, the percent threshold disabled: the
\* pass ended without listing anything
C26_Witness ==
    /\ pass = 1 /\ r_pc = "done"
    /\ min_percent = 0 /\ min_gb = 2 /\ free = 2
    /\ listed = {} /\ rlog = <<>> /\ present = Files

\* the pass itself removes a file in this step
PassDeletes == present' # present /\ env_gone' = env_gone

\* C27: every deletion is decided on the free space as it is in that very
\* iteration: a file is deleted only at a step where the fresh free space
\* violates a threshold; the first iteration that finds the thresholds
\* satisfied ends the loop, and nothing is deleted from then on, whoever freed
\* the space.
C27_RecheckBeforeEachDeletion ==
    /\ [][PassDeletes => Triggered(free)]_vars
    /\ [][(r_pc = "loop" /\ idx <= Len(files) /\ ~Triggered(free) /\ r_pc' # r_pc) =>
            r_pc' = "final" /\ UNCHANGED PassEffects]_vars
    /\ [][(r_pc \in {"final", "done"} /\ pass' = pass) => UNCHANGED PassEffects]_vars

\* after one deletion another process freed space; the pass stopped with a
\* candidate left, below its cap
C27_Witness ==
    /\ pass = 1 /\ r_pc = "done" /\ ~dry_run
    /\ deleted_count = 1 /\ max_delete = 2 /\ idx <= Len(files)
    /\ files[idx] \in present
    /\ env_touched /\ free > start_fs.free + deleted_count
    /\ ~Triggered(free)

\* a listed file has been removed by another process
ListedVanished == listed \cap env_gone # {}

\* C28: a listed file that another process removes before the pass reaches it,
\* the sort included, never aborts the pass: the pass is still on its way to
\* the final summary.
C28_VanishedCandidatesBenign ==
    ListedVanished => r_pc \in {"sort", "loop", "final", "done"}

\* the directories from d upwards, root excluded, nearest first
UpFrom(d) ==
    IF d = "root" THEN <<>>
    ELSE IF Parent(d) = "root" THEN <<d>>
    ELSE <<d, Parent(d)>>

\* directory d holds a file or a directory
HoldsSomething(d, pres, ds) ==
    \/ \E g \in pres : DirOf(g) = d
    \/ \E c \in ds \ {"root", d} : Parent(c) = d

\* C29: directories are removed only by the deletion of a file, and what is
\* removed is an unbroken run of that file's parents, nearest first, each of
\* them empty; the run ends at the first parent that holds something, or at
\* root, which is never removed.
C29_DirectoryPruning ==
    /\ []("root" \in dirs)
    /\ [][dirs' # dirs => PassDeletes]_vars
    /\ [][PassDeletes =>
            \E f \in present \ present' :
                LET c == UpFrom(DirOf(f)) IN
                \E k \in 0..Len(c) :
                    /\ dirs' \subseteq dirs
                    /\ dirs \ dirs' = {c[i] : i \in 1..k}
                    /\ \A i \in 1..k : ~HoldsSomething(c[i], present', dirs')
                    /\ k < Len(c) => HoldsSomething(c[k + 1], present', dirs')]_vars

\* the file in root/a/b went first and took b with it, root/a still held a
\* file; that file went next and took a with it; root, holding a file, stays
C29_Witness ==
    /\ pass = 1 /\ Len(rlog) = 2
    /\ rlog[1] = [op |-> "deleted", f |-> 1]
    /\ rlog[2] = [op |-> "deleted", f |-> 3]
    /\ dirs = {"root"}
    /\ 2 \in present

\* C30: once the stop flag is set the supervisor launches no capture process:
\* no step taken with the flag set makes a new process the current, running
\* one.
C30_NoLaunchAfterStop == [][stop_flag => ~Launches]_vars

\* the attempts of the current segment at which FFmpeg exited with code 0
ExitedZero == {i \in 1..Len(g_runs) : g_runs[i].rc = "0"}

\* C31: record_segment runs the capture command at most MAX_RETRIES times; an
\* attempt that exits with code 0 is the last one, and True is returned right
\* after it; False is returned iff MAX_RETRIES attempts were made and each of
\* them failed or raised; whatever was returned, main goes on to the cleanup
\* and to the next segment.
C31_BoundedSegmentRetries ==
    /\ [](Len(g_runs) <= MAX_RETRIES)
    /\ [](\A i \in ExitedZero : i = Len(g_runs) /\ ok = "True")
    /\ [](ok # "None" =>
            (ok = "False" <=>
                /\ Len(g_runs) = MAX_RETRIES
                /\ \A i \in 1..Len(g_runs) : g_runs[i].rc # "0" \/ g_runs[i].raised))
    /\ [][(g_pc = "returned" /\ g_pc' \notin {"returned", "ended"}) =>
            cleanups' = cleanups + 1 /\ g_pc' = "top"]_vars

====
